---- MODULE Spec2Model ----
(***************************************************************************)
(* A model of the OAuth2 server routes of src/server/website.py: the       *)
(* authorization endpoint oauth_authorize (/auth) and the token endpoint   *)
(* oauth_token (/token), over the Client, AuthCode, AuthToken, User and    *)
(* UserEmail tables.                                                       *)
(*                                                                         *)
(* Strings the code splits or searches (scope, username) are sequences of  *)
(* atoms, an atom being a word without a blank, a blank " " or an "@".     *)
(* A URI is the pair <<hostname, rest>>; <<>> is the absent URI (None).    *)
(* Other parameters are strings, Absent standing for a missing parameter.  *)
(***************************************************************************)
EXTENDS Integers, Sequences, FiniteSets

VARIABLES
    clients,    \* Client table: key -> row
    authcodes,  \* AuthCode table, rows in insertion order
    tokens,     \* AuthToken table, rows in insertion order
    hist,       \* history: for each AuthToken row, the request that made it
    now,        \* datetime.utcnow(), in seconds
    request,    \* the request being answered
    response,   \* the answer to it
    pre         \* history: the tables as they were when the request came in

vars == <<clients, authcodes, tokens, hist, now, request, response, pre>>

----------------------------------------------------------------------------
\* Bounds of the model

MaxCodes == 2
MaxTokens == 2
MaxTime == 122

\* Steps by which the clock advances between requests
TickSteps == {59, 60, 61}

----------------------------------------------------------------------------
\* Values

Absent == "<absent>"
NoUri == <<>>
NoUser == "<nobody>"

\* Python truthiness of an optional string parameter: None and '' are false
Falsy(x) == x = Absent \/ x = ""

SeqRange(s) == {s[i] : i \in 1..Len(s)}

\* unicode.split(u' ')
RECURSIVE SplitAcc(_, _, _)
SplitAcc(s, cur, acc) ==
    IF s = <<>> THEN Append(acc, cur)
    ELSE IF Head(s) = " " THEN SplitAcc(Tail(s), <<>>, Append(acc, cur))
    ELSE SplitAcc(Tail(s), Append(cur, Head(s)), acc)

Split(s) == SplitAcc(s, <<>>, <<>>)

\* u' '.join(value)
RECURSIVE Join(_)
Join(value) ==
    IF value = <<>> THEN <<>>
    ELSE IF Len(value) = 1 THEN value[1]
    ELSE value[1] \o <<" ">> \o Join(Tail(value))

\* The comparison of whole URIs in place of hostnames
HostnameWhole(uri) == uri

\* urlparse.urlsplit(uri).hostname
Hostname(uri) == uri[1]

\* '@' in name
HasAt(name) == "@" \in SeqRange(name)

----------------------------------------------------------------------------
\* Tables the two endpoints only read

\* User rows: username and password hash
Users ==
    [alice |-> [username |-> <<"alice">>, pw_hash |-> <<"hash", "pw1">>],
     bob   |-> [username |-> <<"bob">>,   pw_hash |-> <<"hash", "pw2">>]]

\* UserEmail rows: email -> user
UserEmails == {[email |-> <<"alice", "@", "x">>, user |-> "alice"]}

\* werkzeug.generate_password_hash
GeneratePasswordHash(password) == <<"hash", password>>

\* User.check_password
CheckPassword(user, password) == Users[user].pw_hash = GeneratePasswordHash(password)

\* Client rows as registered: c1 needs consent, c2 is trusted
RegisteredClients ==
    [c1 |-> [secret |-> "s1", redirect_uri |-> <<"app", "/cb">>,
             active |-> TRUE, trusted |-> FALSE],
     c2 |-> [secret |-> "s2", redirect_uri |-> <<"svc", "/cb">>,
             active |-> TRUE, trusted |-> TRUE]]

\* newsecret() for an AuthCode: a value no earlier row has
NewSecret == Len(authcodes) + 1

\* newid() for an AuthToken
NewId == Len(tokens) + 1

\* No code is 0: request.form.get('code') of a request without one
NoCode == 0

----------------------------------------------------------------------------
\* Responses

NoResponse ==
    [kind |-> "none", status |-> 0, error |-> "", desc |-> "", target |-> NoUri,
     state |-> Absent, code |-> NoCode, token |-> 0, scope |-> <<>>]

\* An exception leaves the view: the request ends without a response of the view
Unhandled == [NoResponse EXCEPT !.kind = "unhandled", !.status = 500]

\* requires_login: no user in the session
LoginRedirect == [NoResponse EXCEPT !.kind = "login", !.status = 302]

\* oauth_auth_403
OAuthAuth403(reason) ==
    [NoResponse EXCEPT !.kind = "forbidden", !.status = 403, !.desc = reason]

\* make_redirect_url: urlsplit(None) raises
MakeRedirectUrl(url, resp) ==
    IF url = NoUri THEN Unhandled
    ELSE [resp EXCEPT !.kind = "redirect", !.status = 302, !.target = url]

\* oauth_auth_success
OAuthAuthSuccess(redirect_uri, state, code) ==
    MakeRedirectUrl(redirect_uri, [NoResponse EXCEPT !.code = code, !.state = state])

\* oauth_auth_error
OAuthAuthError(redirect_uri, state, error, error_description) ==
    MakeRedirectUrl(redirect_uri,
        [NoResponse EXCEPT !.error = error, !.state = state,
                           !.desc = error_description])

\* render_template('authorize.html', ...)
ConsentPage(redirect_uri, state) ==
    [NoResponse EXCEPT !.kind = "consent", !.status = 200,
                       !.target = redirect_uri, !.state = state]

\* oauth_token_error
OAuthTokenError(error, error_description) ==
    [NoResponse EXCEPT !.kind = "error", !.status = 400, !.error = error,
                       !.desc = error_description]

\* oauth_token_success
OAuthTokenSuccess(token) ==
    [NoResponse EXCEPT !.kind = "json", !.status = 200, !.token = token.token,
                       !.scope = Join(Split(token.scope))]

----------------------------------------------------------------------------
\* The authorization endpoint

\* oauth_make_auth_code: the AuthCode row of the user in the session
OAuthMakeAuthCode(user, client_id, scope, redirect_uri) ==
    [code |-> NewSecret, user |-> user, client |-> client_id,
     scope |-> Join(scope), redirect_uri |-> redirect_uri,
     datetime |-> now, used |-> FALSE]

\* The response of a view together with the rows it commits
Answer(resp) == [resp |-> resp, rows |-> <<>>]

\* oauth_auth_success commits the row before it builds the redirect
Granted(row, resp) == [resp |-> resp, rows |-> <<row>>]

\* The decision with the consent step skipped for every client
AuthorizeDecisionTrustsAll(req, client, scope, redirect_uri) ==
    LET row == OAuthMakeAuthCode(req.user, req.client_id, scope, redirect_uri)
        success == Granted(row, OAuthAuthSuccess(redirect_uri, req.state, row.code))
    IN  IF req.method = "GET" THEN success
        ELSE IF req.method = "POST" /\ req.csrf /\ req.form = "accept" THEN success
        ELSE IF req.method = "POST" /\ req.csrf /\ req.form = "deny"
            THEN Answer(OAuthAuthError(redirect_uri, req.state, "access_denied", ""))
        ELSE Answer(ConsentPage(redirect_uri, req.state))

\* The decision with every valid form submission taken for consent
AuthorizeDecisionAnyPost(req, client, scope, redirect_uri) ==
    LET row == OAuthMakeAuthCode(req.user, req.client_id, scope, redirect_uri)
        success == Granted(row, OAuthAuthSuccess(redirect_uri, req.state, row.code))
    IN  IF req.method = "GET" /\ client.trusted THEN success
        ELSE IF req.method = "POST" /\ req.csrf THEN success
        ELSE Answer(ConsentPage(redirect_uri, req.state))

\* The decision with the form taken without validate_on_submit
AuthorizeDecisionNoCsrf(req, client, scope, redirect_uri) ==
    LET row == OAuthMakeAuthCode(req.user, req.client_id, scope, redirect_uri)
        success == Granted(row, OAuthAuthSuccess(redirect_uri, req.state, row.code))
    IN  IF req.method = "GET" /\ client.trusted THEN success
        ELSE IF req.method = "POST" /\ req.form = "accept" THEN success
        ELSE IF req.method = "POST" /\ req.form = "deny"
            THEN Answer(OAuthAuthError(redirect_uri, req.state, "access_denied", ""))
        ELSE Answer(ConsentPage(redirect_uri, req.state))

\* oauth_authorize from "Validations complete" on
AuthorizeDecision(req, client, scope, redirect_uri) ==
    LET row == OAuthMakeAuthCode(req.user, req.client_id, scope, redirect_uri)
        success == Granted(row, OAuthAuthSuccess(redirect_uri, req.state, row.code))
    IN  IF req.method = "GET" /\ client.trusted THEN success
        ELSE IF req.method = "POST" /\ req.csrf /\ req.form = "accept" THEN success
        ELSE IF req.method = "POST" /\ req.csrf /\ req.form = "deny"
            THEN Answer(OAuthAuthError(redirect_uri, req.state, "access_denied", ""))
        ELSE Answer(ConsentPage(redirect_uri, req.state))

\* oauth_authorize, validations 2.1 to 3.1
AuthorizeParams(req, client, redirect_uri) ==
    LET scope == Split(req.scope)
    IN  IF Falsy(req.response_type)
            THEN Answer(OAuthAuthError(redirect_uri, req.state, "invalid_request",
                                       "response_type missing"))
        ELSE IF req.response_type # "code"
            THEN Answer(OAuthAuthError(redirect_uri, req.state,
                                       "unsupported_response_type", ""))
        ELSE IF scope = <<>>
            THEN Answer(OAuthAuthError(redirect_uri, req.state, "invalid_request",
                                       "Scope not specified"))
        ELSE IF scope # << <<"id">> >>
            THEN Answer(OAuthAuthError(redirect_uri, req.state, "invalid_scope", ""))
        ELSE AuthorizeDecision(req, client, scope, redirect_uri)

\* The validations with the error of 1.1 and 1.2 always sent by redirect
AuthorizeClientAlwaysRedirects(req) ==
    IF Falsy(req.client_id)
        THEN Answer(OAuthAuthError(req.redirect_uri, req.state, "invalid_request",
                                   "client_id missing"))
    ELSE IF req.client_id \notin DOMAIN clients
        THEN Answer(OAuthAuthError(req.redirect_uri, req.state,
                                   "unauthorized_client", ""))
    ELSE LET client == clients[req.client_id]
         IN  IF ~client.active
                 THEN Answer(OAuthAuthError(req.redirect_uri, req.state,
                                            "unauthorized_client", ""))
             ELSE IF req.redirect_uri = NoUri
                 THEN AuthorizeParams(req, client, client.redirect_uri)
             ELSE IF req.redirect_uri # client.redirect_uri
                     /\ Hostname(req.redirect_uri) # Hostname(client.redirect_uri)
                 THEN Answer(OAuthAuthError(req.redirect_uri, req.state,
                                 "invalid_request", "Redirect URI hostname doesn't match"))
             ELSE AuthorizeParams(req, client, req.redirect_uri)

\* The validations with an omitted redirect_uri left as it came
AuthorizeClientKeepsOmitted(req) ==
    IF Falsy(req.client_id)
        THEN IF req.redirect_uri # NoUri
             THEN Answer(OAuthAuthError(req.redirect_uri, req.state, "invalid_request",
                                        "client_id missing"))
             ELSE Answer(OAuthAuth403("Missing client_id"))
    ELSE IF req.client_id \notin DOMAIN clients
        THEN IF req.redirect_uri # NoUri
             THEN Answer(OAuthAuthError(req.redirect_uri, req.state,
                                        "unauthorized_client", ""))
             ELSE Answer(OAuthAuth403("Unknown client_id"))
    ELSE LET client == clients[req.client_id]
         IN  IF ~client.active
                 THEN Answer(OAuthAuthError(req.redirect_uri, req.state,
                                            "unauthorized_client", ""))
             ELSE IF req.redirect_uri = NoUri
                 THEN AuthorizeParams(req, client, req.redirect_uri)
             ELSE IF req.redirect_uri # client.redirect_uri
                     /\ Hostname(req.redirect_uri) # Hostname(client.redirect_uri)
                 THEN Answer(OAuthAuthError(req.redirect_uri, req.state,
                                 "invalid_request", "Redirect URI hostname doesn't match"))
             ELSE AuthorizeParams(req, client, req.redirect_uri)

\* oauth_authorize, validations 1.1 to 1.4
AuthorizeClient(req) ==
    IF Falsy(req.client_id)
        THEN IF req.redirect_uri # NoUri
             THEN Answer(OAuthAuthError(req.redirect_uri, req.state, "invalid_request",
                                        "client_id missing"))
             ELSE Answer(OAuthAuth403("Missing client_id"))
    ELSE IF req.client_id \notin DOMAIN clients
        THEN IF req.redirect_uri # NoUri
             THEN Answer(OAuthAuthError(req.redirect_uri, req.state,
                                        "unauthorized_client", ""))
             ELSE Answer(OAuthAuth403("Unknown client_id"))
    ELSE LET client == clients[req.client_id]
         IN  IF ~client.active
                 THEN Answer(OAuthAuthError(req.redirect_uri, req.state,
                                            "unauthorized_client", ""))
             ELSE IF req.redirect_uri = NoUri
                 THEN AuthorizeParams(req, client, client.redirect_uri)
             ELSE IF req.redirect_uri # client.redirect_uri
                     /\ Hostname(req.redirect_uri) # Hostname(client.redirect_uri)
                 THEN Answer(OAuthAuthError(req.redirect_uri, req.state,
                                 "invalid_request", "Redirect URI hostname doesn't match"))
             ELSE AuthorizeParams(req, client, req.redirect_uri)

\* The view without the requires_login decorator
AuthorizeViewNoLogin(req) == AuthorizeClient(req)

\* requires_login around oauth_authorize
AuthorizeView(req) ==
    IF req.user = NoUser THEN Answer(LoginRedirect) ELSE AuthorizeClient(req)

----------------------------------------------------------------------------
\* The token endpoint

\* timedelta(minutes=1), in seconds
ExpirySeconds == 60

GrantTypes == {"authorization_code", "client_credentials", "password"}

\* oauth_make_token
OAuthMakeToken(user, client_id, scope) ==
    [token |-> NewId, user |-> user, client |-> client_id, scope |-> Join(scope)]

\* oauth_make_token, then oauth_token_success, which commits
Issued(token) == [resp |-> OAuthTokenSuccess(token), rows |-> <<token>>]

\* The query without the client: filter_by(code=code)
AuthCodeQueryAnyClient(code, client_id) ==
    SelectSeq(authcodes, LAMBDA a : a.code = code)

\* AuthCode.query.filter_by(code=code, client=client): the matching rows, in order
AuthCodeQuery(code, client_id) ==
    SelectSeq(authcodes, LAMBDA a : a.code = code /\ a.client = client_id)

\* The comparison with <= : a code of exactly one minute is taken for expired
ExpiredAtOneMinute(authcode) == authcode.datetime <= now - ExpirySeconds

\* authcode.datetime < (datetime.utcnow()-timedelta(minutes=1))
Expired(authcode) == authcode.datetime < now - ExpirySeconds

\* set(scope).issubset(set(authcode.scope))
ScopeIsSubset(scope, authcode) == SeqRange(scope) \subseteq SeqRange(Split(authcode.scope))

\* The branch with the requested scope kept unchecked for the token
TokenScopeAsRequested(req, authcode) ==
    IF req.redirect_uri # authcode.redirect_uri
        THEN Answer(OAuthTokenError("invalid_client", "redirect_uri does not match"))
    ELSE Issued(OAuthMakeToken(authcode.user, req.client_id, Split(req.scope)))

\* The branch with the redirect_uri compared only when the request has one
TokenScopeOptionalUri(req, authcode) ==
    LET scope == Split(req.scope)
    IN  IF scope = <<>>
            THEN Answer(OAuthTokenError("invalid_scope", "Scope is blank"))
        ELSE IF ~ScopeIsSubset(scope, authcode)
            THEN Answer(Unhandled)
        ELSE IF req.redirect_uri # NoUri /\ req.redirect_uri # authcode.redirect_uri
            THEN Answer(OAuthTokenError("invalid_client", "redirect_uri does not match"))
        ELSE Issued(OAuthMakeToken(authcode.user, req.client_id, Split(authcode.scope)))

\* The branch with the token added to the session before the redirect_uri
\* is compared, and committed with the error
TokenScopeAddsFirst(req, authcode) ==
    LET scope == Split(req.scope)
        token == OAuthMakeToken(authcode.user, req.client_id, Split(authcode.scope))
    IN  IF scope = <<>>
            THEN Answer(OAuthTokenError("invalid_scope", "Scope is blank"))
        ELSE IF ~ScopeIsSubset(scope, authcode)
            THEN Answer(Unhandled)
        ELSE IF req.redirect_uri # authcode.redirect_uri
            THEN [resp |-> OAuthTokenError("invalid_client", "redirect_uri does not match"),
                  rows |-> <<token>>]
        ELSE Issued(token)

\* oauth_token, validations 3.1 to the end of the authorization_code branch;
\* raise of a Response object is a TypeError
TokenScope(req, authcode) ==
    LET scope == Split(req.scope)
    IN  IF scope = <<>>
            THEN Answer(OAuthTokenError("invalid_scope", "Scope is blank"))
        ELSE IF ~ScopeIsSubset(scope, authcode)
            THEN Answer(Unhandled)
        ELSE IF req.redirect_uri # authcode.redirect_uri
            THEN Answer(OAuthTokenError("invalid_client", "redirect_uri does not match"))
        ELSE Issued(OAuthMakeToken(authcode.user, req.client_id, Split(authcode.scope)))

\* oauth_token, grant_type == 'authorization_code'
TokenAuthorizationCode(req) ==
    LET found == AuthCodeQuery(req.code, req.client_id)
    IN  IF found = <<>>
            THEN Answer(OAuthTokenError("invalid_grant", "Unknown auth code"))
        ELSE IF Expired(Head(found))
            THEN Answer(OAuthTokenError("invalid_grant", "Expired auth code"))
        ELSE TokenScope(req, Head(found))

\* The branch with the token made for a user
TokenClientCredentialsForUser(req) ==
    Issued(OAuthMakeToken("alice", req.client_id, Split(req.scope)))

\* oauth_token, grant_type == 'client_credentials'
TokenClientCredentials(req) ==
    Issued(OAuthMakeToken(NoUser, req.client_id, Split(req.scope)))

\* UserEmail.query.filter_by(email=username).first()
EmailQuery(username) == {e \in UserEmails : e.email = username}

\* User.query.filter_by(username=username).first()
UserQuery(username) == {u \in DOMAIN Users : Users[u].username = username}

\* oauth_token, validations 4.2 on, for the user found
TokenPasswordCheck(req, user) ==
    IF ~CheckPassword(user, req.password)
        THEN Answer(OAuthTokenError("invalid_client", "Password mismatch"))
    ELSE Issued(OAuthMakeToken(user, req.client_id, Split(req.scope)))

\* oauth_token, grant_type == 'password'; .first().user of no row is an
\* AttributeError
TokenPassword(req) ==
    IF ~clients[req.client_id].trusted
        THEN Answer(OAuthTokenError("unauthorized_client",
                                    "Client is not trusted for password grant_type"))
    ELSE IF req.username = <<>> \/ Falsy(req.password)
        THEN Answer(OAuthTokenError("invalid_request",
                                    "Username or password not provided"))
    ELSE IF HasAt(req.username)
        THEN IF EmailQuery(req.username) = {} THEN Answer(Unhandled)
             ELSE TokenPasswordCheck(req, (CHOOSE e \in EmailQuery(req.username) : TRUE).user)
    ELSE IF UserQuery(req.username) = {}
        THEN Answer(OAuthTokenError("invalid_client", "No such user"))
    ELSE TokenPasswordCheck(req, CHOOSE u \in UserQuery(req.username) : TRUE)

\* oauth_token, the dispatch on grant_type
TokenGrant(req) ==
    IF req.grant_type = "authorization_code" THEN TokenAuthorizationCode(req)
    ELSE IF req.grant_type = "client_credentials" THEN TokenClientCredentials(req)
    ELSE TokenPassword(req)

\* The password branch without the test of client.trusted
TokenPasswordAnyClient(req) ==
    IF req.username = <<>> \/ Falsy(req.password)
        THEN Answer(OAuthTokenError("invalid_request",
                                    "Username or password not provided"))
    ELSE IF HasAt(req.username)
        THEN IF EmailQuery(req.username) = {} THEN Answer(Unhandled)
             ELSE TokenPasswordCheck(req, (CHOOSE e \in EmailQuery(req.username) : TRUE).user)
    ELSE IF UserQuery(req.username) = {}
        THEN Answer(OAuthTokenError("invalid_client", "No such user"))
    ELSE TokenPasswordCheck(req, CHOOSE u \in UserQuery(req.username) : TRUE)

\* The client validations with the password grant open to every client
TokenClientTrustsAll(req) ==
    IF req.client_id \notin DOMAIN clients \/ ~clients[req.client_id].active
        THEN Answer(OAuthTokenError("invalid_client", "Unknown client_id"))
    ELSE IF req.client_secret # clients[req.client_id].secret
        THEN Answer(OAuthTokenError("invalid_client", "client_secret mismatch"))
    ELSE IF req.grant_type = "password" THEN TokenPasswordAnyClient(req)
    ELSE TokenGrant(req)

\* The client validations without the comparison of the secret
TokenClientAnySecret(req) ==
    IF req.client_id \notin DOMAIN clients \/ ~clients[req.client_id].active
        THEN Answer(OAuthTokenError("invalid_client", "Unknown client_id"))
    ELSE IF req.grant_type = "password" /\ ~clients[req.client_id].trusted
        THEN Answer(OAuthTokenError("unauthorized_client",
                                    "Client not trusted for password grant_type"))
    ELSE TokenGrant(req)

\* oauth_token, validations 2: the client
TokenClient(req) ==
    IF req.client_id \notin DOMAIN clients \/ ~clients[req.client_id].active
        THEN Answer(OAuthTokenError("invalid_client", "Unknown client_id"))
    ELSE IF req.client_secret # clients[req.client_id].secret
        THEN Answer(OAuthTokenError("invalid_client", "client_secret mismatch"))
    ELSE IF req.grant_type = "password" /\ ~clients[req.client_id].trusted
        THEN Answer(OAuthTokenError("unauthorized_client",
                                    "Client not trusted for password grant_type"))
    ELSE TokenGrant(req)

\* oauth_token, validations 1: required parameters
TokenView(req) ==
    IF Falsy(req.grant_type) \/ Falsy(req.client_id) \/ Falsy(req.client_secret)
        THEN Answer(OAuthTokenError("invalid_request", ""))
    ELSE IF req.grant_type \notin GrantTypes
        THEN Answer(OAuthTokenError("unsupported_grant_type", ""))
    ELSE TokenClient(req)

----------------------------------------------------------------------------
\* Requests

\* How the form of /auth arrives: a GET, or a POST with or without a valid
\* CSRF token and with the button pressed
FormModes ==
    {[method |-> "GET", csrf |-> FALSE, form |-> "none"]}
    \cup [method : {"POST"}, csrf : {TRUE}, form : {"accept", "deny", "none"}]
    \cup {[method |-> "POST", csrf |-> FALSE, form |-> "accept"]}

AuthRequest(user, mode, response_type, client_id, redirect_uri, scope, state) ==
    [endpoint |-> "auth", user |-> user, method |-> mode.method, csrf |-> mode.csrf,
     form |-> mode.form, response_type |-> response_type, client_id |-> client_id,
     redirect_uri |-> redirect_uri, scope |-> scope, state |-> state]

TokenRequest(grant_type, client_id, client_secret, scope, code, redirect_uri, username, password) ==
    [endpoint |-> "token", grant_type |-> grant_type, client_id |-> client_id,
     client_secret |-> client_secret, scope |-> scope, code |-> code,
     redirect_uri |-> redirect_uri, username |-> username, password |-> password]

\* Requests to /auth of one user that pass validation: either client, the
\* registered redirect URI or another path on the host of c1
GrantRequests ==
    {AuthRequest("alice", m, "code", c, r, <<"id">>, Absent) :
        m \in {mm \in FormModes : mm.method = "GET" \/ (mm.csrf /\ mm.form # "none")},
        c \in {"c1", "c2"}, r \in {NoUri, <<"app", "/x">>}}

\* Requests to /auth with every combination of client_id, redirect_uri,
\* response_type and scope, and those of a second user and of no user
AuthRequests ==
    {AuthRequest("alice", m, t, c, r, sc, Absent) :
        m \in {mm \in FormModes : mm.method = "GET" \/ (mm.csrf /\ mm.form # "none")},
        t \in {Absent, "code", "token"}, c \in {Absent, "", "c1", "c2", "zz"},
        r \in {NoUri, <<"app", "/cb">>, <<"app", "/x">>, <<"svc", "/cb">>},
        sc \in {<<>>, <<"id">>, <<"id", " ", "email">>, <<"email">>}}
    \cup {AuthRequest(u, m, "code", c, NoUri, <<"id">>, "xyz") :
        u \in {"bob", NoUser}, m \in FormModes, c \in {"c1", "c2"}}

\* Requests to /token with grant_type=authorization_code
CodeRequests ==
    {TokenRequest("authorization_code", c, s, sc, k, r, <<>>, Absent) :
        c \in {"c1", "c2"}, s \in {"s1", "s2"},
        sc \in {<<>>, <<"id">>, <<"id", " ", "email">>},
        k \in 0..MaxCodes,
        r \in {NoUri, <<"app", "/cb">>, <<"app", "/x">>, <<"svc", "/cb">>}}

\* Requests to /auth and /token of one client and one user, whatever the time
ConsentRequests ==
    {AuthRequest("alice", m, "code", "c1", NoUri, <<"id">>, Absent) :
        m \in {mm \in FormModes : mm.method = "POST" /\ mm.csrf /\ mm.form # "none"}}

TimedRequests ==
    {TokenRequest("authorization_code", "c1", s, sc, k, r, <<>>, Absent) :
        s \in {"s1", "s2"}, sc \in {<<>>, <<"id">>}, k \in 0..MaxCodes,
        r \in {NoUri, <<"app", "/cb">>}}

\* Requests to /token of every grant type
ExchangeRequests ==
    {TokenRequest("authorization_code", c, s, <<"id">>, k, r, <<>>, Absent) :
        c \in {"c1", "c2", "zz"}, s \in {"s1", "s2"}, k \in {NoCode, 1},
        r \in {NoUri, <<"app", "/cb">>}}

CredentialRequests ==
    {TokenRequest("client_credentials", c, s, sc, NoCode, NoUri, <<>>, Absent) :
        c \in {"c1", "c2", "zz"}, s \in {"s1", "s2"}, sc \in {<<>>, <<"id">>}}

PasswordRequests ==
    {TokenRequest("password", c, s, <<"id">>, NoCode, NoUri, n, p) :
        c \in {"c1", "c2"}, s \in {"s1", "s2"},
        n \in {<<>>, <<"alice">>, <<"carol">>, <<"alice", "@", "x">>,
               <<"carol", "@", "x">>},
        p \in {Absent, "pw1", "pw2"}}

\* Requests to /token that miss a required parameter or name another grant_type
MalformedRequests ==
    {TokenRequest(g, c, s, <<"id">>, 1, <<"app", "/cb">>, <<"alice">>, "pw1") :
        g \in {Absent, "", "refresh_token", "authorization_code"},
        c \in {Absent, "c1"}, s \in {Absent, "", "s1"}}

TokenRequests == ExchangeRequests \cup CredentialRequests \cup PasswordRequests
                 \cup MalformedRequests

----------------------------------------------------------------------------
\* The state machine

NoRequest == [endpoint |-> "none"]

Tables == [clients |-> clients, authcodes |-> authcodes, tokens |-> tokens]

NoTables == [clients |-> <<>>, authcodes |-> <<>>, tokens |-> <<>>]

Idle == response.kind = "none"

Init ==
    /\ clients = RegisteredClients
    /\ authcodes = <<>>
    /\ tokens = <<>>
    /\ hist = <<>>
    /\ now = 0
    /\ request = NoRequest
    /\ response = NoResponse
    /\ pre = NoTables

\* A request to /auth is answered by oauth_authorize
Authorize(req) ==
    LET out == AuthorizeView(req)
    IN  /\ Idle
        /\ Len(authcodes) + Len(out.rows) <= MaxCodes
        /\ authcodes' = authcodes \o out.rows
        /\ request' = req
        /\ response' = out.resp
        /\ pre' = Tables
        /\ UNCHANGED <<clients, tokens, hist, now>>

\* A request to /token is answered by oauth_token
Token(req) ==
    LET out == TokenView(req)
    IN  /\ Idle
        /\ Len(tokens) + Len(out.rows) <= MaxTokens
        /\ tokens' = tokens \o out.rows
        /\ hist' = hist \o [i \in 1..Len(out.rows) |->
                               [grant_type |-> req.grant_type, code |-> req.code]]
        /\ request' = req
        /\ response' = out.resp
        /\ pre' = Tables
        /\ UNCHANGED <<clients, authcodes, now>>

\* The response leaves; the server waits for the next request
Deliver ==
    /\ ~Idle
    /\ request' = NoRequest
    /\ response' = NoResponse
    /\ pre' = NoTables
    /\ UNCHANGED <<clients, authcodes, tokens, hist, now>>

\* Time passes between requests
Tick(d) ==
    /\ Idle
    /\ now + d <= MaxTime
    /\ now' = now + d
    /\ UNCHANGED <<clients, authcodes, tokens, hist, request, response, pre>>

\* The registry's owner sets the active flag of a client
SetActive(c, b) ==
    /\ Idle
    /\ clients[c].active # b
    /\ clients' = [clients EXCEPT ![c].active = b]
    /\ UNCHANGED <<authcodes, tokens, hist, now, request, response, pre>>

Clock == \E d \in TickSteps : Tick(d)

Registry == \E c \in DOMAIN clients, b \in BOOLEAN : SetActive(c, b)

\* Redemption of authorization codes: grants of both clients, and every
\* combination of client, secret, scope, code and redirect URI at /token
GrantStep == \E req \in GrantRequests : Authorize(req)

RedeemStep == \E req \in CodeRequests : Token(req)

NextRedeem == GrantStep \/ RedeemStep \/ Deliver

SpecRedeem == Init /\ [][NextRedeem]_vars

\* Expiry of authorization codes: the grants of one client as time passes
ConsentStep == \E req \in ConsentRequests : Authorize(req)

TimedStep == \E req \in TimedRequests : Token(req)

NextExpiry == ConsentStep \/ TimedStep \/ Deliver \/ Clock

SpecExpiry == Init /\ [][NextExpiry]_vars

\* The token endpoint under every grant type, as clients are deactivated and
\* reactivated
ExchangeStep == \E req \in TokenRequests : Token(req)

NextToken == ConsentStep \/ ExchangeStep \/ Deliver \/ Registry

SpecToken == Init /\ [][NextToken]_vars

\* The authorization endpoint under every combination of parameters, as
\* clients are deactivated and reactivated
AuthorizeStep == \E req \in AuthRequests : Authorize(req)

NextAuthorize == AuthorizeStep \/ Deliver \/ Registry

SpecAuthorize == Init /\ [][NextAuthorize]_vars

\* Requests to /token that can fail several validations at once: parameters
\* missing, another grant_type, an unknown client, a wrong secret, an
\* untrusted client, an unknown code, a scope outside the grant, no
\* redirect_uri
OrderRequests ==
    {TokenRequest(g, c, s, sc, k, r, <<"alice">>, "pw1") :
        g \in {Absent, "refresh_token", "authorization_code", "password"},
        c \in {Absent, "c1", "zz"}, s \in {Absent, "s1", "s2"},
        sc \in {<<>>, <<"id">>, <<"email">>}, k \in {NoCode, 1},
        r \in {NoUri, <<"app", "/cb">>}}

\* The validations of the token endpoint, as time passes and clients are
\* deactivated and reactivated
OrderStep == \E req \in OrderRequests : Token(req)

NextOrder == ConsentStep \/ OrderStep \/ Deliver \/ Clock \/ Registry

SpecOrder == Init /\ [][NextOrder]_vars

\* Requests to /auth of two users and of a visitor without a session, for
\* either client, however the form arrives
VisitorRequests ==
    {AuthRequest(u, m, "code", c, NoUri, <<"id">>, Absent) :
        u \in {"alice", "bob", NoUser}, m \in FormModes, c \in {"c1", "c2"}}

\* Consent: what the users decide at /auth and what the clients ask of
\* /token under every grant type
VisitStep == \E req \in VisitorRequests : Authorize(req)

GrantTypeStep ==
    \E req \in ExchangeRequests \cup CredentialRequests \cup PasswordRequests : Token(req)

NextConsent == VisitStep \/ GrantTypeStep \/ Deliver

SpecConsent == Init /\ [][NextConsent]_vars

----------------------------------------------------------------------------
\* What the claims speak of

\* A request to /token has been answered
TokenAnswered == ~Idle /\ request.endpoint = "token"

\* A request to /auth has been answered
AuthAnswered == ~Idle /\ request.endpoint = "auth"

\* An answered authorization_code exchange
CodeAnswered == TokenAnswered /\ request.grant_type = "authorization_code"

\* The request names a registered, active client and carries its secret
ClientAuthenticated ==
    /\ request.client_id \in DOMAIN pre.clients
    /\ pre.clients[request.client_id].active
    /\ request.client_secret = pre.clients[request.client_id].secret

\* The grants that carried the code of the request when it came in
GrantsOfCode == {a \in SeqRange(pre.authcodes) : a.code = request.code}

\* Those among them issued to the client of the request
GrantsOfClient == {a \in GrantsOfCode : a.client = request.client_id}

Age(a) == now - a.datetime

\* The scope tokens of a stored or requested scope string, as a set
ScopeSet(str) == SeqRange(Split(str))

\* The answer is the structured error, and no token was created
FailsWith(error) ==
    /\ response.kind = "error"
    /\ response.status = 400
    /\ response.error = error
    /\ tokens = pre.tokens

\* The answer is the token JSON, and exactly one token was created
Succeeds ==
    /\ response.kind = "json"
    /\ Len(tokens) = Len(pre.tokens) + 1
    /\ SubSeq(tokens, 1, Len(pre.tokens)) = pre.tokens

\* The tokens issued by redeeming code k
IssuedFor(k) ==
    {i \in DOMAIN hist : hist[i].grant_type = "authorization_code" /\ hist[i].code = k}

----------------------------------------------------------------------------
\* C1: every authorization code yields at most one token, and an exchange
\* by the right client with the right secret that presents a code already
\* redeemed fails with invalid_grant and creates no token.
C1_RedeemedOnce ==
    /\ \A k \in 1..Len(authcodes) : Cardinality(IssuedFor(k)) <= 1
    /\ (CodeAnswered /\ ClientAuthenticated /\ GrantsOfClient # {}
        /\ (\E i \in 1..Len(pre.tokens) : i \in IssuedFor(request.code)))
       => FailsWith("invalid_grant")

\* C2: every redirect answered by /auth goes to a validated URI: the
\* client_id names a known client and the target is that client's registered
\* redirect URI or a URI on the registered URI's host.
C2_RedirectValidated ==
    (AuthAnswered /\ response.kind = "redirect") =>
        /\ request.client_id \in DOMAIN pre.clients
        /\ \/ response.target = pre.clients[request.client_id].redirect_uri
           \/ Hostname(response.target)
                = Hostname(pre.clients[request.client_id].redirect_uri)

\* C3: an exchange by an authenticated client of a code issued to it more
\* than 60 seconds ago fails with invalid_grant and creates no token; at an
\* age of at most 60 seconds an exchange that asks for a scope within the
\* grant's and gives the grant's redirect URI succeeds.
C3_ExpiryWindow ==
    (CodeAnswered /\ ClientAuthenticated) =>
        \A a \in GrantsOfClient :
            /\ Age(a) > 60 => FailsWith("invalid_grant")
            /\ (Age(a) <= 60 /\ ScopeSet(request.scope) \subseteq ScopeSet(a.scope)
                /\ request.redirect_uri = a.redirect_uri) => Succeeds

\* C3 witness: a code redeemed at the age of 59 seconds while another code of
\* the client has expired
C3_Witness ==
    /\ CodeAnswered /\ response.kind = "json"
    /\ \E a \in GrantsOfClient : Age(a) = 59
    /\ \E b \in SeqRange(pre.authcodes) : Age(b) > 60

\* C4: /token creates a token only for a request whose client_id names a
\* registered active client and whose client_secret is that client's secret;
\* a wrong client_secret is answered by invalid_client with status 400.
C4_ClientSecretRequired ==
    TokenAnswered =>
        /\ tokens # pre.tokens => ClientAuthenticated
        /\ (/\ ~Falsy(request.grant_type) /\ request.grant_type \in GrantTypes
            /\ request.client_id \in DOMAIN pre.clients
            /\ pre.clients[request.client_id].active
            /\ ~Falsy(request.client_secret)
            /\ request.client_secret # pre.clients[request.client_id].secret)
           => (FailsWith("invalid_client") /\ response.desc = "client_secret mismatch")

\* C4 witness: a wrong secret refused after a token was issued
C4_Witness ==
    /\ TokenAnswered /\ response.desc = "client_secret mismatch"
    /\ tokens # <<>>

\* C5: an authenticated client that presents a code issued to another client
\* only is answered by invalid_grant and no token is created; every token
\* issued for a code belongs to the client the code was issued to.
C5_CodeBoundToClient ==
    /\ (CodeAnswered /\ ClientAuthenticated /\ GrantsOfCode # {} /\ GrantsOfClient = {})
       => FailsWith("invalid_grant")
    /\ \A i \in DOMAIN tokens : \A a \in SeqRange(authcodes) :
          (hist[i].grant_type = "authorization_code" /\ hist[i].code = a.code)
          => tokens[i].client = a.client

\* C5 witness: the code of another client is refused
C5_Witness ==
    /\ CodeAnswered /\ ClientAuthenticated
    /\ GrantsOfCode # {} /\ GrantsOfClient = {}
    /\ response.error = "invalid_grant"

\* C6: an authorization_code exchange succeeds only with the redirect_uri
\* recorded on the grant; an exchange that passes the checks before the
\* redirect_uri check with another redirect_uri, or with none, fails with
\* invalid_client and creates no token.
C6_RedirectUriMatches ==
    CodeAnswered =>
        /\ tokens # pre.tokens =>
              \E a \in GrantsOfClient : request.redirect_uri = a.redirect_uri
        /\ ClientAuthenticated =>
              \A a \in GrantsOfClient :
                  (/\ Age(a) <= 60
                   /\ ScopeSet(request.scope) \subseteq ScopeSet(a.scope)
                   /\ request.redirect_uri # a.redirect_uri)
                  => FailsWith("invalid_client")

\* C6 witness: an exchange without redirect_uri is refused at that check
C6_Witness ==
    /\ CodeAnswered /\ ClientAuthenticated
    /\ request.redirect_uri = NoUri
    /\ response.desc = "redirect_uri does not match"

\* C7: the scope of every token issued by an authorization_code exchange is
\* within the scope of the grant that was redeemed for it.
C7_TokenScopeWithinGrant ==
    \A i \in DOMAIN tokens : \A a \in SeqRange(authcodes) :
        (hist[i].grant_type = "authorization_code" /\ hist[i].code = a.code)
        => ScopeSet(tokens[i].scope) \subseteq ScopeSet(a.scope)

\* C7 witness: a token issued for a code
C7_Witness ==
    \E i \in DOMAIN tokens : hist[i].grant_type = "authorization_code"

\* C8: an exchange that asks for a scope outside the grant's is answered by
\* the structured error invalid_scope with status 400, and creates no token.
C8_ScopeErrorReturned ==
    (CodeAnswered /\ ClientAuthenticated) =>
        \A a \in GrantsOfClient :
            (/\ Age(a) <= 60
             /\ request.scope # <<>>
             /\ ~(ScopeSet(request.scope) \subseteq ScopeSet(a.scope)))
            => FailsWith("invalid_scope")

\* C9: an exchange without the scope parameter that is valid otherwise
\* succeeds, and the token carries exactly the scope of the grant.
C9_ScopeInherited ==
    (CodeAnswered /\ ClientAuthenticated) =>
        \A a \in GrantsOfClient :
            (/\ Age(a) <= 60
             /\ request.scope = <<>>
             /\ request.redirect_uri = a.redirect_uri)
            => (Succeeds /\ ScopeSet(tokens[Len(tokens)].scope) = ScopeSet(a.scope))

\* C10: a password request of an authenticated client that is not trusted
\* fails with unauthorized_client and creates no token, whatever the username
\* and password.
C10_PasswordNeedsTrust ==
    (/\ TokenAnswered /\ request.grant_type = "password" /\ ClientAuthenticated
     /\ ~pre.clients[request.client_id].trusted)
    => FailsWith("unauthorized_client")

\* C10 witness: the valid credentials of a user refused to an untrusted client
C10_Witness ==
    /\ TokenAnswered /\ request.grant_type = "password" /\ ClientAuthenticated
    /\ ~pre.clients[request.client_id].trusted
    /\ request.username = <<"alice">> /\ request.password = "pw1"
    /\ response.error = "unauthorized_client"

\* An answered password request of an authenticated, trusted client with
\* both a username and a password
PasswordAnswered ==
    /\ TokenAnswered /\ request.grant_type = "password" /\ ClientAuthenticated
    /\ pre.clients[request.client_id].trusted
    /\ request.username # <<>> /\ ~Falsy(request.password)

\* The users an identifier names: by email when it has an "@", by username
\* otherwise
UsersNamed(name) ==
    IF HasAt(name) THEN {e.user : e \in EmailQuery(name)} ELSE UserQuery(name)

\* C11: a password request of an authenticated trusted client with username
\* and password present, whose identifier names no user or whose password is
\* wrong, is answered by invalid_client and creates no token.
C11_BadCredentialsRefused ==
    (/\ PasswordAnswered
     /\ \/ UsersNamed(request.username) = {}
        \/ \E u \in UsersNamed(request.username) : ~CheckPassword(u, request.password))
    => FailsWith("invalid_client")

\* C12: every token created by a client_credentials exchange has no owning
\* user.
C12_ClientTokenHasNoUser ==
    \A i \in DOMAIN tokens :
        hist[i].grant_type = "client_credentials" => tokens[i].user = NoUser

\* C12 witness: a token of a client_credentials exchange beside a token that
\* has a user
C12_Witness ==
    /\ \E i \in DOMAIN tokens : hist[i].grant_type = "client_credentials"
    /\ \E j \in DOMAIN tokens : tokens[j].user # NoUser

----------------------------------------------------------------------------
\* The authorization flow

\* The request comes with a user in the session
LoggedIn == request.user # NoUser

\* The client_id names a registered, active client
KnownActive ==
    /\ request.client_id \in DOMAIN pre.clients
    /\ pre.clients[request.client_id].active

\* The redirect URI the client registered
Registered == pre.clients[request.client_id].redirect_uri

\* The host of a URI
HostOf(uri) == uri[1]

\* The supplied redirect_uri is on another host than the registered one
HostDiffers ==
    request.redirect_uri # NoUri /\ HostOf(request.redirect_uri) # HostOf(Registered)

\* The redirect URI of the flow: the supplied one, or else the registered one
EffectiveUri ==
    IF request.redirect_uri = NoUri THEN Registered ELSE request.redirect_uri

\* The request passes every validation of the authorization flow
ValidAuthParams ==
    /\ KnownActive /\ ~HostDiffers
    /\ request.response_type = "code" /\ request.scope = <<"id">>

\* The request created no grant
NoGrant == authcodes = pre.authcodes

\* The request created exactly one grant
OneGrant ==
    /\ Len(authcodes) = Len(pre.authcodes) + 1
    /\ SubSeq(authcodes, 1, Len(pre.authcodes)) = pre.authcodes

LastGrant == authcodes[Len(authcodes)]

\* The answer is a redirect to uri that carries the code of the new grant
RedirectsWithCode(uri) ==
    /\ OneGrant
    /\ response.kind = "redirect" /\ response.target = uri
    /\ response.error = "" /\ response.code = LastGrant.code

\* C13: a request without an authenticated user creates no grant, whatever
\* the client, and every grant created belongs to the user of the session of
\* the request that created it.
C13_GrantNeedsUser ==
    /\ AuthAnswered =>
          /\ ~LoggedIn => (NoGrant /\ response.kind = "login")
          /\ ~NoGrant => (OneGrant /\ LoggedIn /\ LastGrant.user = request.user)
    /\ \A a \in SeqRange(authcodes) : a.user \in DOMAIN Users

\* C13 witness: a GET for the trusted client without a session is sent to the
\* login page
C13_Witness ==
    /\ AuthAnswered /\ ~LoggedIn /\ request.method = "GET"
    /\ request.client_id = "c2" /\ pre.clients["c2"].active
    /\ response.kind = "login"

\* C14: a valid GET of an authenticated user creates a grant and redirects
\* with its code at once when the client is trusted; when it is not, it
\* creates no grant and shows the consent decision.
C14_TrustedSkipsConsent ==
    (AuthAnswered /\ LoggedIn /\ request.method = "GET" /\ ValidAuthParams) =>
        IF pre.clients[request.client_id].trusted
        THEN RedirectsWithCode(EffectiveUri)
        ELSE NoGrant /\ response.kind = "consent"

\* C14 witness: the GET of the trusted client is answered with a code
C14_Witness ==
    /\ AuthAnswered /\ request.method = "GET" /\ request.client_id = "c2"
    /\ response.kind = "redirect" /\ response.code # NoCode

\* C15: in the consent step a deny is answered by a redirect with
\* access_denied, and a submission without a decision or without a valid
\* form shows the consent decision again; neither changes the grants, the
\* tokens or the clients.
C15_DenyChangesNothing ==
    (AuthAnswered /\ LoggedIn /\ ValidAuthParams /\ request.method = "POST") =>
        /\ (request.csrf /\ request.form = "deny") =>
              /\ response.kind = "redirect" /\ response.error = "access_denied"
              /\ response.target = EffectiveUri
              /\ Tables = pre
        /\ (~request.csrf \/ request.form = "none") =>
              (response.kind = "consent" /\ Tables = pre)

\* C15 witness: a deny answered with access_denied when a grant exists
C15_Witness ==
    /\ AuthAnswered /\ request.form = "deny"
    /\ response.error = "access_denied"
    /\ authcodes # <<>>

\* C16: a request of an authenticated user with no redirect_uri and with no
\* client_id, or an unknown one, is answered by the 403 page, not a redirect.
C16_DirectError ==
    (/\ AuthAnswered /\ LoggedIn /\ request.redirect_uri = NoUri
     /\ (Falsy(request.client_id) \/ request.client_id \notin DOMAIN pre.clients))
    => (response.kind = "forbidden" /\ response.status = 403 /\ NoGrant)

\* C16 witness: an unknown client_id without redirect_uri gets the 403 page
C16_Witness ==
    /\ AuthAnswered /\ request.client_id = "zz" /\ request.redirect_uri = NoUri
    /\ response.kind = "forbidden"

\* C17: for a known active client a redirect_uri on another host is refused
\* with invalid_request and no grant; one on the registered host, whatever
\* its path, is the target of the answer and the URI of the grant; without
\* redirect_uri the registered one is.
C17_HostnameDecides ==
    (AuthAnswered /\ LoggedIn /\ KnownActive) =>
        IF HostDiffers
        THEN response.error = "invalid_request" /\ NoGrant
        ELSE /\ response.kind \in {"redirect", "consent"}
             /\ response.target = EffectiveUri
             /\ response.desc # "Redirect URI hostname doesn't match"
             /\ ~NoGrant => LastGrant.redirect_uri = EffectiveUri
             /\ (/\ request.response_type = "code" /\ request.scope = <<"id">>
                 /\ request.method = "POST" /\ request.csrf
                 /\ request.form = "accept") => RedirectsWithCode(EffectiveUri)

\* C17 witness: a grant on another path of the registered host
C17_Witness ==
    /\ AuthAnswered /\ request.client_id = "c1"
    /\ request.redirect_uri = <<"app", "/x">>
    /\ ~NoGrant /\ LastGrant.redirect_uri = <<"app", "/x">>
    /\ response.target = <<"app", "/x">>

\* C18: in the authorization flow a request that passes the checks before
\* the scope checks is refused with invalid_request when its scope is absent
\* or empty and with invalid_scope when its scope is another one than "id";
\* neither creates a grant.
C18_ScopeErrors ==
    (/\ AuthAnswered /\ LoggedIn /\ KnownActive /\ ~HostDiffers
     /\ request.response_type = "code") =>
        /\ request.scope = <<>> => (response.error = "invalid_request" /\ NoGrant)
        /\ request.scope \notin {<<>>, <<"id">>} =>
              (response.error = "invalid_scope" /\ NoGrant)

\* C19: every request ends in one of the defined answers: a redirect, the
\* 403 page, the consent decision, the login page, the token JSON or the
\* JSON error.
C19_AlwaysAnswered ==
    ~Idle => response.kind \in {"redirect", "forbidden", "consent", "login",
                                "json", "error"}

\* The error of the first check of the authorization flow that the request
\* fails, in the order client_id present, client known, client active,
\* hostname, response_type present, response_type supported; "" when it
\* passes them all
FirstAuthError ==
    IF Falsy(request.client_id) THEN "invalid_request"
    ELSE IF request.client_id \notin DOMAIN pre.clients THEN "unauthorized_client"
    ELSE IF ~pre.clients[request.client_id].active THEN "unauthorized_client"
    ELSE IF HostDiffers THEN "invalid_request"
    ELSE IF Falsy(request.response_type) THEN "invalid_request"
    ELSE IF request.response_type # "code" THEN "unsupported_response_type"
    ELSE ""

\* The first two checks answer with the 403 page when there is no redirect_uri
DirectCase ==
    /\ request.redirect_uri = NoUri
    /\ (Falsy(request.client_id) \/ request.client_id \notin DOMAIN pre.clients)

\* C20: a request that fails checks of the authorization flow is answered
\* with the error of the first one it fails, and with an error of the scope
\* checks only when it passes all the checks before them.
C20_FirstFailingCheck ==
    (AuthAnswered /\ LoggedIn) =>
        /\ (FirstAuthError # "" /\ DirectCase) => response.kind = "forbidden"
        /\ (FirstAuthError # "" /\ ~DirectCase) =>
              (response.kind = "redirect" /\ response.error = FirstAuthError)
        /\ response.desc = "Scope not specified" \/ response.error = "invalid_scope"
              => FirstAuthError = ""
        /\ NoGrant \/ FirstAuthError = ""

----------------------------------------------------------------------------
\* The token flow

\* The grant the code of the request names for its client
GrantOfRequest == CHOOSE a \in GrantsOfClient : TRUE

\* The error of the first check of the authorization_code exchange that the
\* request fails, in the order unknown code, expiry, scope, redirect_uri; a
\* request without a scope asks for the scope of the grant; "" when it passes
\* them all
FirstCodeError ==
    IF GrantsOfClient = {} THEN "invalid_grant"
    ELSE IF Age(GrantOfRequest) > 60 THEN "invalid_grant"
    ELSE IF /\ request.scope # <<>>
            /\ ~(ScopeSet(request.scope) \subseteq ScopeSet(GrantOfRequest.scope))
        THEN "invalid_scope"
    ELSE IF request.redirect_uri # GrantOfRequest.redirect_uri THEN "invalid_client"
    ELSE ""

\* The error of the first check of the token flow that the request fails, in
\* the order parameters present, grant_type supported, client known and
\* active, secret, trusted client for the password grant, checks of the
\* grant; "" when it passes them all
FirstTokenError ==
    IF \/ Falsy(request.grant_type) \/ Falsy(request.client_id)
       \/ Falsy(request.client_secret)
        THEN "invalid_request"
    ELSE IF request.grant_type \notin {"authorization_code", "client_credentials",
                                       "password"}
        THEN "unsupported_grant_type"
    ELSE IF \/ request.client_id \notin DOMAIN pre.clients
            \/ ~pre.clients[request.client_id].active
        THEN "invalid_client"
    ELSE IF request.client_secret # pre.clients[request.client_id].secret
        THEN "invalid_client"
    ELSE IF request.grant_type = "password" /\ ~pre.clients[request.client_id].trusted
        THEN "unauthorized_client"
    ELSE IF request.grant_type = "authorization_code" THEN FirstCodeError
    ELSE ""

\* C21: a token request that fails checks of the token flow is answered with
\* the error of the first one it fails, in the order parameters present,
\* grant_type supported, client known and active, secret, trusted client for
\* the password grant, and then for authorization_code unknown code, expiry,
\* scope, redirect_uri.
C21_FirstFailingTokenCheck ==
    (TokenAnswered /\ FirstTokenError # "") => FailsWith(FirstTokenError)

\* The client is not trusted
Untrusted(c) == ~clients[c].trusted

\* The grants that stand behind token i: those with the code it was
\* exchanged for, of its client and its user
GrantsBehind(i) ==
    {a \in SeqRange(authcodes) :
        /\ hist[i].grant_type = "authorization_code" /\ a.code = hist[i].code
        /\ a.client = tokens[i].client /\ a.user = tokens[i].user}

\* The request is the accept decision of a logged-in user, sent with the
\* valid form token
AcceptDecision ==
    /\ LoggedIn /\ request.method = "POST" /\ request.csrf
    /\ request.form = "accept"

\* C22: for a client that is not trusted, every token bound to a user was
\* issued by redeeming a grant of that user for that client, and every grant
\* of such a client is created by the accept decision of the logged-in user
\* it belongs to, for that client.
C22_UntrustedNeedsConsent ==
    /\ \A i \in DOMAIN tokens :
          (Untrusted(tokens[i].client) /\ tokens[i].user # NoUser)
              => GrantsBehind(i) # {}
    /\ (AuthAnswered /\ ~NoGrant /\ Untrusted(LastGrant.client)) =>
          /\ OneGrant /\ AcceptDecision
          /\ LastGrant.user = request.user /\ LastGrant.client = request.client_id

\* C22 witness: the client that is not trusted holds a token of bob, after a
\* GET and a denial of alice gave it nothing
C22_Witness ==
    /\ \E i \in DOMAIN tokens : tokens[i].client = "c1" /\ tokens[i].user = "bob"
    /\ \A i \in DOMAIN tokens : tokens[i].user # "alice"
    /\ \A a \in SeqRange(authcodes) : a.client = "c1" /\ a.user = "bob"

\* C23: a token request answered with an error leaves the tokens, the
\* grants and the clients as they were; only a request answered with the
\* token JSON adds a token, and it adds exactly one and changes nothing else.
C23_TokenErrorFrame ==
    TokenAnswered =>
        /\ response.kind = "error" => Tables = pre
        /\ tokens # pre.tokens => response.kind = "json"
        /\ response.kind = "json" =>
              (Succeeds /\ authcodes = pre.authcodes /\ clients = pre.clients)

\* C23 witness: a request is answered with an error while the stores hold a
\* grant and a token
C23_Witness ==
    /\ TokenAnswered /\ response.kind = "error"
    /\ pre.authcodes # <<>> /\ pre.tokens # <<>>
    /\ ClientAuthenticated /\ request.grant_type = "authorization_code"

\* The request names a registered client that is not active
Deactivated ==
    /\ request.client_id \in DOMAIN pre.clients
    /\ ~pre.clients[request.client_id].active

\* The request to /token has its three parameters and a grant type of the
\* endpoint
WellFormed ==
    /\ ~Falsy(request.grant_type) /\ ~Falsy(request.client_id)
    /\ ~Falsy(request.client_secret)
    /\ request.grant_type \in {"authorization_code", "client_credentials", "password"}

\* C24: while a client is inactive, a logged-in user's authorization request
\* for it is answered with unauthorized_client and creates no grant, and a
\* token request for it of any grant type is answered with invalid_client
\* and creates no token, the exchange of an unexpired code issued before the
\* deactivation included.
C24_InactiveClientRefused ==
    /\ (AuthAnswered /\ LoggedIn /\ Deactivated) =>
          (NoGrant /\ response.kind = "redirect"
                   /\ response.error = "unauthorized_client")
    /\ (TokenAnswered /\ WellFormed /\ Deactivated) => FailsWith("invalid_client")

\* An answered exchange of a code whose grant records the redirect URI the
\* client registered, as a grant made without a redirect_uri does
RegisteredGrantAnswered ==
    /\ CodeAnswered /\ GrantsOfClient # {}
    /\ GrantOfRequest.redirect_uri = Registered

\* C25: the grant of an authorization request without redirect_uri records
\* the redirect URI the client registered; the exchange of its code succeeds
\* only when the token request supplies that URI, and the exchange by the
\* authenticated client with a scope within the grant and no redirect_uri is
\* answered with invalid_client.
C25_OmittedUriRoundTrip ==
    /\ (AuthAnswered /\ request.redirect_uri = NoUri /\ ~NoGrant) =>
          (OneGrant /\ LastGrant.redirect_uri = Registered)
    /\ (RegisteredGrantAnswered /\ response.kind = "json") =>
          request.redirect_uri = Registered
    /\ (/\ RegisteredGrantAnswered /\ ClientAuthenticated
        /\ Age(GrantOfRequest) <= 60
        /\ request.scope # <<>>
        /\ ScopeSet(request.scope) \subseteq ScopeSet(GrantOfRequest.scope)
        /\ request.redirect_uri = NoUri) => FailsWith("invalid_client")

\* C25 witness: the code of a grant made without redirect_uri was exchanged
\* for a token by a request with the registered URI, and the same exchange
\* without redirect_uri is refused
C25_Witness ==
    /\ RegisteredGrantAnswered /\ ClientAuthenticated
    /\ request.scope = <<"id">> /\ request.redirect_uri = NoUri
    /\ response.error = "invalid_client"
    /\ IssuedFor(request.code) # {}

====
